---- MODULE Spec2Model ----
(***************************************************************************)
(* Stale-while-revalidate cache of composables/useCachedData: the module   *)
(* level cacheStore, the freshness classifier (isFresh / isUsable), the    *)
(* store operations (getCachedData, setCachedData, needsRevalidation,      *)
(* clearCache, clearAllCache) and the read-through facade useCachedData    *)
(* with its fire-and-forget background revalidation.                       *)
(*                                                                         *)
(* Time is the value of Date.now(), scaled so that one unit is one         *)
(* observable step of the clock.  Every call of Date.now() in the code is  *)
(* one clock reading of the model; two readings made inside one handler    *)
(* may differ, because the clock runs while the handler does.              *)
(***************************************************************************)
EXTENDS Integers, FiniteSets, Sequences, Bags, TLC

VARIABLES cacheStore, now, inflight, last

vars == <<cacheStore, now, inflight, last>>

(***************************************************************************)
(* Bounds of the model.                                                    *)
(***************************************************************************)
\* the clock stops advancing at MaxTime
MaxTime == 2
\* at most MaxInflight fetcher promises are pending at once
MaxInflight == 2
\* the longest maxAge and staleWhileRevalidate the classifier is applied to
MaxDuration == 2

(***************************************************************************)
(* Program constants.                                                      *)
(***************************************************************************)
\* DEFAULT_CACHE_OPTIONS.maxAge, 5 * 60 * 1000
DefaultMaxAge == 300000
\* DEFAULT_CACHE_OPTIONS.staleWhileRevalidate, 60 * 60 * 1000
DefaultStaleWhileRevalidate == 3600000

(***************************************************************************)
(* Values.                                                                 *)
(***************************************************************************)
\* the JavaScript value null: a payload like any other for the store, and
\* the "nothing usable" result of getCachedData
NullData == "null"
\* payloads (the type parameter T)
Data == {NullData, "A", "B"}
\* the JavaScript value undefined, as the result of the getCachedData hook
Undefined == "undefined"
\* cache keys in use
Keys == {"k1"}
\* the empty string, a falsy cacheKey
EmptyKey == ""

\* CacheOptions objects: a property that is not in the DOMAIN is undefined
NoOptions == [x \in {} |-> 0]
\* the cacheKey property of an options object: undefined, "" or a key
WithCacheKey(K) == {NoOptions} \cup {[cacheKey |-> c] : c \in K \cup {EmptyKey}}

\* the maxAge / staleWhileRevalidate pairs callers pass: none (the defaults),
\* a window of one fresh and one stale step, and a zero window
ValidOptions ==
    { NoOptions,
      [maxAge |-> 1, staleWhileRevalidate |-> 1],
      [maxAge |-> 0, staleWhileRevalidate |-> 0] }

(***************************************************************************)
(* The freshness classifier.  t is the reading of Date.now().              *)
(***************************************************************************)
\* isFresh with the instant age = maxAge still fresh
isFresh_Inclusive(entry, t) == t - entry.timestamp <= entry.maxAge

isFresh(entry, t) == t - entry.timestamp < entry.maxAge

\* isUsable with the expiry instant itself still inside the window
isUsable_Inclusive(entry, t) ==
    t - entry.timestamp <= entry.maxAge + entry.staleWhileRevalidate

isUsable(entry, t) ==
    t - entry.timestamp < entry.maxAge + entry.staleWhileRevalidate

\* cacheStore.has(key)
Has(store, key) == key \in DOMAIN store

\* getCachedData(key), Date.now() reading t
getCachedData(store, key, t) ==
    IF Has(store, key) /\ isUsable(store[key], t)
    THEN store[key].data
    ELSE NullData

\* const { maxAge = 5 * 60 * 1000, staleWhileRevalidate = 60 * 60 * 1000 } = options
MaxAgeOf(options) ==
    IF "maxAge" \in DOMAIN options THEN options.maxAge ELSE DefaultMaxAge

StaleWhileRevalidateOf(options) ==
    IF "staleWhileRevalidate" \in DOMAIN options
    THEN options.staleWhileRevalidate
    ELSE DefaultStaleWhileRevalidate

\* the entry built with the options of the call dropped
NewEntry_DefaultsOnly(data, options, t) ==
    [data |-> data,
     timestamp |-> t,
     maxAge |-> DefaultMaxAge,
     staleWhileRevalidate |-> DefaultStaleWhileRevalidate]

\* the CacheEntry setCachedData builds, Date.now() reading t
NewEntry(data, options, t) ==
    [data |-> data,
     timestamp |-> t,
     maxAge |-> MaxAgeOf(options),
     staleWhileRevalidate |-> StaleWhileRevalidateOf(options)]

\* a set that writes the entry under every key of the map
MapSet_Everywhere(store, key, entry) ==
    [k \in DOMAIN store \cup {key} |-> entry]

\* cacheStore.set(key, entry)
MapSet(store, key, entry) ==
    [k \in DOMAIN store \cup {key} |-> IF k = key THEN entry ELSE store[k]]

\* setCachedData that keeps an entry the key already has
setCachedData_KeepExisting(store, key, data, options, t) ==
    IF key \in DOMAIN store THEN store
    ELSE [k \in DOMAIN store \cup {key} |->
            IF k = key THEN [data |-> data, timestamp |-> t,
                             maxAge |-> MaxAgeOf(options),
                             staleWhileRevalidate |-> StaleWhileRevalidateOf(options)]
            ELSE store[k]]

\* setCachedData that merges into an entry the key already has: the new data
\* and timestamp, the durations the entry had
setCachedData_Merge(store, key, data, options, t) ==
    IF key \in DOMAIN store
    THEN [store EXCEPT ![key] = [@ EXCEPT !.data = data, !.timestamp = t]]
    ELSE MapSet(store, key, NewEntry(data, options, t))

\* setCachedData(key, data, options), Date.now() reading t
setCachedData(store, key, data, options, t) ==
    MapSet(store, key, NewEntry(data, options, t))

\* needsRevalidation(key): isFresh reads the clock at t2 and, only when the
\* entry is not fresh, isUsable reads it again at t3
needsRevalidation(store, key, t2, t3) ==
    IF ~Has(store, key) THEN TRUE
    ELSE ~isFresh(store[key], t2) /\ isUsable(store[key], t3)

\* clearCache that empties the store
clearCache_All(store, key) == [k \in {} |-> store[k]]

\* clearCache(key): cacheStore.delete(key)
clearCache(store, key) == [k \in DOMAIN store \ {key} |-> store[k]]

\* clearAllCache(): cacheStore.clear()
clearAllCache(store) == [k \in {} |-> store[k]]

\* a resolvedKey that is the key of the call site whatever the options say
ResolvedKey_CallSite(key, options) == key

\* const resolvedKey = cacheKey || key
ResolvedKey(key, options) ==
    IF "cacheKey" \in DOMAIN options /\ options.cacheKey # EmptyKey
    THEN options.cacheKey
    ELSE key

\* the options of a useCachedData call: cache options plus the cacheKey
QueryOptions(K, O) == {o @@ c : o \in O, c \in WithCacheKey(K)}

(***************************************************************************)
(* State.                                                                  *)
(*   cacheStore  the Map<string, CacheEntry>: a function whose DOMAIN is   *)
(*               the set of keys the map holds                             *)
(*   now         the value Date.now() returns                              *)
(*   inflight    the pending fetcher() promises, a bag of                  *)
(*               [kind, key, maxAge, staleWhileRevalidate, started]:       *)
(*               kind "fetch" is awaited by useAsyncData (its handler is   *)
(*               transform), kind "revalidate" is the promise made in the  *)
(*               getCachedData hook; maxAge and staleWhileRevalidate are   *)
(*               the values the closure captured.  The fetchers are async  *)
(*               functions: one fails by rejecting its promise             *)
(*   last        what the latest call did and returned                     *)
(***************************************************************************)
NoOp == "-"
None == "-"

Observed(op, key, res, t, fetch, options, started, prev) ==
    [op |-> op, key |-> key, res |-> res, t |-> t, fetch |-> fetch,
     options |-> options, started |-> started, prev |-> prev]

\* the { maxAge, staleWhileRevalidate } the destructuring of options yields
Captured(options) ==
    [maxAge |-> MaxAgeOf(options),
     staleWhileRevalidate |-> StaleWhileRevalidateOf(options)]

Task(kind, key, options, t) ==
    [kind |-> kind, key |-> key, maxAge |-> MaxAgeOf(options),
     staleWhileRevalidate |-> StaleWhileRevalidateOf(options), started |-> t]

\* { maxAge, staleWhileRevalidate } as the closures pass it to setCachedData
CapturedOptions(task) ==
    [maxAge |-> task.maxAge, staleWhileRevalidate |-> task.staleWhileRevalidate]

Pending == BagCardinality(inflight)

Init ==
    /\ cacheStore = [k \in {} |-> 0]
    /\ now = 0
    /\ inflight = EmptyBag
    /\ last = Observed(NoOp, None, None, 0, None, NoOptions, 0, None)

\* the clock runs
Tick ==
    /\ now < MaxTime
    /\ now' = now + 1
    /\ UNCHANGED <<cacheStore, inflight, last>>

\* a lookup that deletes the entry it finds unusable
Get_EvictsExpired(key) ==
    /\ cacheStore' = IF Has(cacheStore, key) /\ ~isUsable(cacheStore[key], now)
                     THEN clearCache(cacheStore, key)
                     ELSE cacheStore
    /\ last' = Observed("Get", key, getCachedData(cacheStore, key, now), now,
                        None, NoOptions, 0,
                        IF last.key = key THEN last.op ELSE None)
    /\ UNCHANGED <<now, inflight>>

\* a lookup that calls a fetcher for the stale entry it returns
Get_StartsRevalidation(key) ==
    /\ inflight' = IF /\ Has(cacheStore, key)
                      /\ needsRevalidation(cacheStore, key, now, now)
                      /\ Pending < MaxInflight
                   THEN inflight (+) SetToBag({Task("revalidate", key,
                                                    cacheStore[key], now)})
                   ELSE inflight
    /\ last' = Observed("Get", key, getCachedData(cacheStore, key, now), now,
                        None, NoOptions, 0,
                        IF last.key = key THEN last.op ELSE None)
    /\ UNCHANGED <<cacheStore, now>>

\* cacheUtils.getCachedData(key)
Get(key) ==
    /\ last' = Observed("Get", key, getCachedData(cacheStore, key, now), now,
                        None, NoOptions, 0,
                        IF last.key = key THEN last.op ELSE None)
    /\ UNCHANGED <<cacheStore, now, inflight>>

\* cacheUtils.setCachedData(key, data, options); prev tells whether the key
\* had an entry
Set(key, data, options) ==
    /\ cacheStore' = setCachedData(cacheStore, key, data, options, now)
    /\ last' = Observed("Set", key, data, now, None, options, 0,
                        IF Has(cacheStore, key) THEN "replaced" ELSE None)
    /\ UNCHANGED <<now, inflight>>

\* cacheUtils.needsRevalidation(key); the clock may advance by a between the
\* reading of isFresh and the reading of isUsable
NeedsRevalidation(key, a) ==
    LET t3 == IF Has(cacheStore, key) /\ ~isFresh(cacheStore[key], now)
              THEN now + a ELSE now
        r == needsRevalidation(cacheStore, key, now, t3)
    IN /\ t3 <= MaxTime
       /\ now' = t3
       /\ last' = Observed("NeedsRevalidation", key,
                           IF r THEN "true" ELSE "false", now,
                           None, NoOptions, 0, None)
       /\ UNCHANGED <<cacheStore, inflight>>

\* cacheUtils.clearCache(key); prev tells whether the key had an entry
Clear(key) ==
    /\ cacheStore' = clearCache(cacheStore, key)
    /\ last' = Observed("Clear", key, None, now, None, NoOptions, 0,
                        IF Has(cacheStore, key) THEN "removed" ELSE None)
    /\ UNCHANGED <<now, inflight>>

\* cacheUtils.clearAllCache()
ClearAll ==
    /\ cacheStore' = clearAllCache(cacheStore)
    /\ last' = Observed("ClearAll", None, None, now, None, NoOptions, 0, None)
    /\ UNCHANGED <<now, inflight>>

\* a Query that judges the entry by the maxAge and staleWhileRevalidate of its
\* own options
Query_ReaderWindow(key, options, a, b) ==
    LET resolvedKey == ResolvedKey(key, options)
        t2 == now + a
        cached == IF /\ Has(cacheStore, resolvedKey)
                     /\ now - cacheStore[resolvedKey].timestamp
                           < MaxAgeOf(options) + StaleWhileRevalidateOf(options)
                  THEN cacheStore[resolvedKey].data
                  ELSE NullData
    IN IF cached # NullData
       THEN LET t3 == IF isFresh(cacheStore[resolvedKey], t2) THEN t2 ELSE t2 + b
                stale == needsRevalidation(cacheStore, resolvedKey, t2, t3)
            IN /\ t3 <= MaxTime
               /\ IF stale
                  THEN /\ Pending < MaxInflight
                       /\ inflight' = inflight (+)
                            SetToBag({Task("revalidate", resolvedKey, options, t3)})
                  ELSE UNCHANGED inflight
               /\ now' = t3
               /\ last' = Observed("Query", resolvedKey, cached, now,
                                   IF stale THEN "background" ELSE None,
                                   Captured(options), 0, key)
               /\ UNCHANGED cacheStore
       ELSE /\ a = 0 /\ b = 0
            /\ Pending < MaxInflight
            /\ inflight' = inflight (+)
                 SetToBag({Task("fetch", resolvedKey, options, now)})
            /\ last' = Observed("Query", resolvedKey, Undefined, now, "awaited",
                                Captured(options), 0, key)
            /\ UNCHANGED <<cacheStore, now>>

\* useCachedData(key, fetcher, options): useAsyncData calls the getCachedData
\* hook; a result other than undefined is the data of the call, and on
\* undefined it calls fetcher() and awaits it.  The hook reads the clock in
\* getCachedData (now) and, for a non-null result, in needsRevalidation:
\* isFresh at now + a and, when not fresh, isUsable at now + a + b.  prev is
\* the key of the call site, which useAsyncData is given.
Query(key, options, a, b) ==
    LET resolvedKey == ResolvedKey(key, options)
        t2 == now + a
        cached == getCachedData(cacheStore, resolvedKey, now)
    IN IF cached # NullData
       THEN LET t3 == IF isFresh(cacheStore[resolvedKey], t2) THEN t2 ELSE t2 + b
                stale == needsRevalidation(cacheStore, resolvedKey, t2, t3)
            IN /\ t3 <= MaxTime
               /\ IF stale
                  THEN /\ Pending < MaxInflight
                       /\ inflight' = inflight (+)
                            SetToBag({Task("revalidate", resolvedKey, options, t3)})
                  ELSE UNCHANGED inflight
               /\ now' = t3
               /\ last' = Observed("Query", resolvedKey, cached, now,
                                   IF stale THEN "background" ELSE None,
                                   Captured(options), 0, key)
               /\ UNCHANGED cacheStore
       ELSE /\ a = 0 /\ b = 0
            /\ Pending < MaxInflight
            /\ inflight' = inflight (+)
                 SetToBag({Task("fetch", resolvedKey, options, now)})
            /\ last' = Observed("Query", resolvedKey, Undefined, now, "awaited",
                                Captured(options), 0, key)
            /\ UNCHANGED <<cacheStore, now>>

\* a transform that stamps the entry with the instant the fetch was started
FetchResolve_AtStart(task, data) ==
    /\ BagIn(task, inflight) /\ task.kind = "fetch"
    /\ inflight' = inflight (-) SetToBag({task})
    /\ cacheStore' = setCachedData(cacheStore, task.key, data,
                                   CapturedOptions(task), task.started)
    /\ last' = Observed("transform", task.key, data, now, None,
                        CapturedOptions(task), task.started, None)
    /\ UNCHANGED now

\* the awaited fetcher() resolves with data: transform stores and returns it
FetchResolve(task, data) ==
    /\ BagIn(task, inflight) /\ task.kind = "fetch"
    /\ inflight' = inflight (-) SetToBag({task})
    /\ cacheStore' = setCachedData(cacheStore, task.key, data,
                                   CapturedOptions(task), now)
    /\ last' = Observed("transform", task.key, data, now, None,
                        CapturedOptions(task), task.started, None)
    /\ UNCHANGED now

\* a rejection that caches the failure as a null payload
FetchReject_CachesFailure(task) ==
    /\ BagIn(task, inflight) /\ task.kind = "fetch"
    /\ inflight' = inflight (-) SetToBag({task})
    /\ cacheStore' = setCachedData(cacheStore, task.key, NullData,
                                   CapturedOptions(task), now)
    /\ last' = Observed("fetchError", task.key, "error", now, None,
                        CapturedOptions(task), task.started, None)
    /\ UNCHANGED now

\* the awaited fetcher() rejects: useAsyncData reports the error
FetchReject(task) ==
    /\ BagIn(task, inflight) /\ task.kind = "fetch"
    /\ inflight' = inflight (-) SetToBag({task})
    /\ last' = Observed("fetchError", task.key, "error", now, None,
                        CapturedOptions(task), task.started, None)
    /\ UNCHANGED <<cacheStore, now>>

\* a revalidation that stamps the entry with the instant it was started
RevalidateResolve_AtTrigger(task, data) ==
    /\ BagIn(task, inflight) /\ task.kind = "revalidate"
    /\ inflight' = inflight (-) SetToBag({task})
    /\ cacheStore' = setCachedData(cacheStore, task.key, data,
                                   CapturedOptions(task), task.started)
    /\ last' = Observed("revalidated", task.key, data, now, None,
                        CapturedOptions(task), task.started, None)
    /\ UNCHANGED now

\* a revalidation whose result is dropped
RevalidateResolve_Discards(task, data) ==
    /\ BagIn(task, inflight) /\ task.kind = "revalidate"
    /\ inflight' = inflight (-) SetToBag({task})
    /\ last' = Observed("revalidated", task.key, data, now, None,
                        CapturedOptions(task), task.started, None)
    /\ UNCHANGED <<cacheStore, now>>

\* a revalidation that gives way to an entry written after it was started
RevalidateResolve_UnlessNewer(task, data) ==
    /\ BagIn(task, inflight) /\ task.kind = "revalidate"
    /\ inflight' = inflight (-) SetToBag({task})
    /\ cacheStore' = IF /\ Has(cacheStore, task.key)
                        /\ cacheStore[task.key].timestamp >= task.started
                     THEN cacheStore
                     ELSE setCachedData(cacheStore, task.key, data,
                                        CapturedOptions(task), now)
    /\ last' = Observed("revalidated", task.key, data, now, None,
                        CapturedOptions(task), task.started, None)
    /\ UNCHANGED now

\* fetcher().then(freshData => setCachedData(resolvedKey, freshData, ...))
RevalidateResolve(task, data) ==
    /\ BagIn(task, inflight) /\ task.kind = "revalidate"
    /\ inflight' = inflight (-) SetToBag({task})
    /\ cacheStore' = setCachedData(cacheStore, task.key, data,
                                   CapturedOptions(task), now)
    /\ last' = Observed("revalidated", task.key, data, now, None,
                        CapturedOptions(task), task.started, None)
    /\ UNCHANGED now

\* a failed revalidation that evicts the stale entry
RevalidateReject_Evicts(task) ==
    /\ BagIn(task, inflight) /\ task.kind = "revalidate"
    /\ inflight' = inflight (-) SetToBag({task})
    /\ cacheStore' = clearCache(cacheStore, task.key)
    /\ last' = Observed("revalidateFailed", task.key, None, now, None,
                        CapturedOptions(task), task.started, None)
    /\ UNCHANGED now

\* .catch(() => {}): the rejection is dropped
RevalidateReject(task) ==
    /\ BagIn(task, inflight) /\ task.kind = "revalidate"
    /\ inflight' = inflight (-) SetToBag({task})
    /\ last' = Observed("revalidateFailed", task.key, None, now, None,
                        CapturedOptions(task), task.started, None)
    /\ UNCHANGED <<cacheStore, now>>

NextOver(K, O) ==
    \/ Tick
    \/ \E key \in K : Get(key)
    \/ \E key \in K, data \in Data, options \in O : Set(key, data, options)
    \/ \E key \in K, a \in {0, 1} : NeedsRevalidation(key, a)
    \/ \E key \in K : Clear(key)
    \/ ClearAll
    \/ \E key \in K, options \in QueryOptions(K, O), a \in {0, 1}, b \in {0, 1} :
          Query(key, options, a, b)
    \/ \E task \in BagToSet(inflight), data \in Data : FetchResolve(task, data)
    \/ \E task \in BagToSet(inflight) : FetchReject(task)
    \/ \E task \in BagToSet(inflight), data \in Data : RevalidateResolve(task, data)
    \/ \E task \in BagToSet(inflight) : RevalidateReject(task)

Next == NextOver(Keys, ValidOptions)

Spec == Init /\ [][Next]_vars

(***************************************************************************)
(* Vocabulary of the specification (section 4.2), stated on its own terms. *)
(***************************************************************************)
Age(entry, t) == t - entry.timestamp
Fresh(entry, t) == Age(entry, t) < entry.maxAge
StaleButUsable(entry, t) ==
    /\ entry.maxAge <= Age(entry, t)
    /\ Age(entry, t) < entry.maxAge + entry.staleWhileRevalidate
Expired(entry, t) ==
    Age(entry, t) >= entry.maxAge + entry.staleWhileRevalidate

\* the latest call was a Query, and this is the entry it looked up
QueryLookedUp ==
    /\ last.op = "Query"
    /\ Has(cacheStore, last.key)

\* the fetcher promises the latest Query left pending for its key
StartedBy(kind) ==
    {task \in BagToSet(inflight) :
        /\ task.kind = kind
        /\ task.key = last.key
        /\ CapturedOptions(task) = last.options}

(***************************************************************************)
(* C1  Usable-implies-accessible: a Query on a key whose stored entry is   *)
(* usable at the lookup returns that entry's data, and no fetcher call is  *)
(* awaited by the caller.                                                  *)
(***************************************************************************)
C1_UsableImpliesAccessible ==
    (QueryLookedUp /\ ~Expired(cacheStore[last.key], last.t))
        => /\ last.res = cacheStore[last.key].data
           /\ last.fetch # "awaited"

(***************************************************************************)
(* C2  Expired data is never served: when the entry's age at the lookup is *)
(* >= maxAge + staleWhileRevalidate, Get returns absent (null) and Query   *)
(* treats the key as a miss (the hook returns undefined and the fetcher is *)
(* awaited).                                                               *)
(***************************************************************************)
C2_ExpiredNeverServed ==
    /\ (last.op = "Get" /\ Has(cacheStore, last.key)
            /\ Expired(cacheStore[last.key], last.t))
          => last.res = NullData
    /\ (QueryLookedUp /\ Expired(cacheStore[last.key], last.t))
          => last.res = Undefined /\ last.fetch = "awaited"

C2_Witness ==
    /\ last.op = "Get"
    /\ Has(cacheStore, last.key)
    /\ cacheStore[last.key].data # NullData
    /\ Age(cacheStore[last.key], last.t)
         = cacheStore[last.key].maxAge + cacheStore[last.key].staleWhileRevalidate
    /\ last.res = NullData

(***************************************************************************)
(* C3  Miss path: a Query that finds the key absent or its entry expired   *)
(* calls the fetcher on the caller's path; when that fetch succeeds the    *)
(* store holds for the key an entry with the fetched data, the clock       *)
(* reading at the moment of storing and the maxAge/staleWhileRevalidate of *)
(* the call, and the fetched data is the result.                           *)
(***************************************************************************)
C3_MissPath ==
    /\ (last.op = "Query"
          /\ (~Has(cacheStore, last.key) \/ Expired(cacheStore[last.key], last.t)))
        => /\ last.fetch = "awaited"
           /\ StartedBy("fetch") # {}
    /\ last.op = "transform"
        => /\ Has(cacheStore, last.key)
           /\ cacheStore[last.key] =
                [data |-> last.res,
                 timestamp |-> last.t,
                 maxAge |-> last.options.maxAge,
                 staleWhileRevalidate |-> last.options.staleWhileRevalidate]
           /\ last.res \in Data

C3_Witness ==
    /\ last.op = "transform"
    /\ last.started < last.t
    /\ last.res # NullData
    /\ cacheStore[last.key].timestamp = last.t

(***************************************************************************)
(* C4  Revalidation-need trigger: a Query that observes a stale-but-usable *)
(* entry starts one background fetch for that key, and a Query that        *)
(* observes a fresh entry starts none.                                     *)
(***************************************************************************)
C4_RevalidationTrigger ==
    /\ (QueryLookedUp /\ StaleButUsable(cacheStore[last.key], last.t))
          => last.fetch = "background" /\ StartedBy("revalidate") # {}
    /\ (QueryLookedUp /\ now = last.t /\ Fresh(cacheStore[last.key], last.t))
          => last.fetch = None

(***************************************************************************)
(* C5  Revalidation success: when the fetch of a background revalidation   *)
(* succeeds, the entry of the key is a new entry with the fetched data,    *)
(* the clock reading at completion as its timestamp, and the               *)
(* maxAge/staleWhileRevalidate of the Query that started it.               *)
(***************************************************************************)
C5_RevalidationSuccess ==
    last.op = "revalidated"
        => /\ Has(cacheStore, last.key)
           /\ cacheStore[last.key] =
                [data |-> last.res,
                 timestamp |-> last.t,
                 maxAge |-> last.options.maxAge,
                 staleWhileRevalidate |-> last.options.staleWhileRevalidate]

C5_Witness ==
    /\ last.op = "revalidated"
    /\ last.started < last.t
    /\ cacheStore[last.key].timestamp = last.t
    /\ cacheStore[last.key].data = "B"

(***************************************************************************)
(* C6  Failure isolation: when the fetch of a background revalidation      *)
(* fails, the store is left as it was (same data, same timestamp), no      *)
(* error is reported to a caller, and the entry is served by               *)
(* getCachedData at exactly the clock readings before                      *)
(* timestamp + maxAge + staleWhileRevalidate of the entry it already had.  *)
(***************************************************************************)
RevalidateRejectStep ==
    last'.op = "revalidateFailed" /\ inflight' # inflight

C6_FailureIsolation ==
    [][RevalidateRejectStep
         => /\ cacheStore' = cacheStore
            /\ last'.res # "error"
            /\ Has(cacheStore, last'.key) =>
                 \A t \in 0..(MaxTime + 2) :
                    getCachedData(cacheStore', last'.key, t) =
                       IF t < cacheStore[last'.key].timestamp
                                + cacheStore[last'.key].maxAge
                                + cacheStore[last'.key].staleWhileRevalidate
                       THEN cacheStore[last'.key].data
                       ELSE NullData]_vars

C6_Witness ==
    /\ last.op = "revalidateFailed"
    /\ Has(cacheStore, last.key)
    /\ cacheStore[last.key].data # NullData
    /\ cacheStore[last.key].timestamp < last.started
    /\ StaleButUsable(cacheStore[last.key], last.t)
    /\ getCachedData(cacheStore, last.key, last.t) = cacheStore[last.key].data
    /\ getCachedData(cacheStore, last.key,
                     cacheStore[last.key].timestamp + cacheStore[last.key].maxAge
                       + cacheStore[last.key].staleWhileRevalidate) = NullData

(***************************************************************************)
(* C7  Synchronous failure: a Query that finds the key absent or expired   *)
(* leaves the store as it is, and when its fetcher fails the error is      *)
(* reported to the caller and the store is again left as it is: a cold key *)
(* stays absent, an expired entry is neither refreshed nor served.         *)
(***************************************************************************)
QueryMissStep ==
    last'.op = "Query" /\ last'.fetch = "awaited" /\ inflight' # inflight

FetchRejectStep ==
    last'.op = "fetchError" /\ inflight' # inflight

C7_SynchronousFailure ==
    [][/\ QueryMissStep => cacheStore' = cacheStore /\ last'.res = Undefined
       /\ FetchRejectStep => cacheStore' = cacheStore /\ last'.res = "error"]_vars

C7_Witness ==
    /\ last.op = "fetchError"
    /\ last.res = "error"
    /\ ~Has(cacheStore, last.key)

(***************************************************************************)
(* The classifier on its own: the helpers of test/utils/cache-helpers and  *)
(* isFresh / isUsable, applied to one entry at every age from 0 to past    *)
(* its expiry.                                                             *)
(***************************************************************************)
isCacheFresh(entry, currentTime) ==
    currentTime - entry.timestamp < entry.maxAge

\* the stale window opening one instant late
isCacheStaleButUsable_Late(entry, currentTime) ==
    LET age == currentTime - entry.timestamp
    IN age > entry.maxAge /\ age < entry.maxAge + entry.staleWhileRevalidate

isCacheStaleButUsable(entry, currentTime) ==
    LET age == currentTime - entry.timestamp
    IN age >= entry.maxAge /\ age < entry.maxAge + entry.staleWhileRevalidate

isCacheExpired(entry, currentTime) ==
    currentTime - entry.timestamp >= entry.maxAge + entry.staleWhileRevalidate

isCacheUsable(entry, currentTime) ==
    currentTime - entry.timestamp < entry.maxAge + entry.staleWhileRevalidate

\* createCacheEntry(data, { timestamp, maxAge, staleWhileRevalidate })
createCacheEntry(data, timestamp, maxAge, staleWhileRevalidate) ==
    [data |-> data, timestamp |-> timestamp, maxAge |-> maxAge,
     staleWhileRevalidate |-> staleWhileRevalidate]

TheEntry == cacheStore["k1"]

InitClassifier ==
    /\ \E timestamp \in 0..1, maxAge \in 0..MaxDuration,
          staleWhileRevalidate \in 0..MaxDuration :
          /\ cacheStore = [k \in {"k1"} |->
                createCacheEntry("A", timestamp, maxAge, staleWhileRevalidate)]
          /\ now = timestamp
    /\ inflight = EmptyBag
    /\ last = [op |-> NoOp]

\* advanceTime: the age grows past maxAge + staleWhileRevalidate
Elapse ==
    /\ now - TheEntry.timestamp < 2 * MaxDuration + 1
    /\ now' = now + 1
    /\ UNCHANGED <<cacheStore, inflight, last>>

\* every predicate applied to the entry at the current reading
Classify ==
    /\ last' = [op |-> "classify",
                t |-> now,
                fresh |-> isFresh(TheEntry, now),
                usable |-> isUsable(TheEntry, now),
                cacheFresh |-> isCacheFresh(TheEntry, now),
                cacheStaleButUsable |-> isCacheStaleButUsable(TheEntry, now),
                cacheExpired |-> isCacheExpired(TheEntry, now),
                cacheUsable |-> isCacheUsable(TheEntry, now)]
    /\ UNCHANGED <<cacheStore, now, inflight>>

NextClassifier == Elapse \/ Classify

SpecClassifier == InitClassifier /\ [][NextClassifier]_vars

(***************************************************************************)
(* C8  Freshness partition: for maxAge >= 0, staleWhileRevalidate >= 0 and *)
(* age >= 0, exactly one of Fresh (age < maxAge), Stale-but-usable         *)
(* (maxAge <= age < maxAge + swr) and Expired (age >= maxAge + swr) holds, *)
(* both as the specification defines them and as the code computes them,   *)
(* and isUsable is Fresh or Stale-but-usable.                              *)
(***************************************************************************)
ExactlyOne(a, b, c) ==
    \/ a /\ ~b /\ ~c
    \/ ~a /\ b /\ ~c
    \/ ~a /\ ~b /\ c

C8_FreshnessPartition ==
    last.op = "classify"
        => /\ ExactlyOne(last.cacheFresh, last.cacheStaleButUsable,
                         last.cacheExpired)
           /\ last.cacheFresh = Fresh(TheEntry, last.t)
           /\ last.cacheStaleButUsable = StaleButUsable(TheEntry, last.t)
           /\ last.cacheExpired = Expired(TheEntry, last.t)
           /\ last.fresh = last.cacheFresh
           /\ last.usable = (last.cacheFresh \/ last.cacheStaleButUsable)
           /\ last.cacheUsable = last.usable

C8_Witness ==
    /\ last.op = "classify"
    /\ TheEntry.maxAge > 0
    /\ TheEntry.staleWhileRevalidate > 0
    /\ last.cacheStaleButUsable
    /\ ~last.cacheFresh
    /\ ~last.cacheExpired
    /\ last.usable

(***************************************************************************)
(* C9  Boundary behaviour: at age = maxAge the entry is not fresh and,     *)
(* when staleWhileRevalidate > 0, is stale-but-usable; at                  *)
(* age = maxAge + staleWhileRevalidate it is expired and not usable; at    *)
(* every age < maxAge it is fresh.                                         *)
(***************************************************************************)
C9_Boundary ==
    last.op = "classify"
        => LET age == last.t - TheEntry.timestamp
               maxAge == TheEntry.maxAge
               swr == TheEntry.staleWhileRevalidate
           IN /\ age = maxAge
                   => /\ ~last.fresh
                      /\ swr > 0 => last.cacheStaleButUsable /\ last.usable
              /\ age = maxAge + swr => last.cacheExpired /\ ~last.usable
              /\ age < maxAge => last.fresh

C9_Witness ==
    /\ last.op = "classify"
    /\ TheEntry.maxAge > 0
    /\ TheEntry.staleWhileRevalidate > 0
    /\ last.t - TheEntry.timestamp = TheEntry.maxAge
    /\ ~last.fresh
    /\ last.usable

(***************************************************************************)
(* C10  Data integrity round-trip, as claimed: for every key, data D and   *)
(* options with maxAge >= 0 and staleWhileRevalidate >= 0, Set(key, D,     *)
(* options) followed at once by Get(key), at the same clock reading,       *)
(* returns D.                                                              *)
(***************************************************************************)
GetRightAfterSet ==
    /\ last.op = "Set"
    /\ last'.op = "Get"
    /\ last'.key = last.key
    /\ last'.t = last.t
    /\ MaxAgeOf(last.options) >= 0
    /\ StaleWhileRevalidateOf(last.options) >= 0

C10_RoundTrip_AnyWindow ==
    [][GetRightAfterSet => last'.res = last.res]_vars

(***************************************************************************)
(* C10 amended: the same round trip for options whose window               *)
(* maxAge + staleWhileRevalidate is longer than zero.                      *)
(***************************************************************************)
C10_RoundTrip ==
    [][(GetRightAfterSet
          /\ MaxAgeOf(last.options) + StaleWhileRevalidateOf(last.options) > 0)
         => last'.res = last.res]_vars

C10_Witness ==
    /\ last.op = "Get"
    /\ last.prev = "Set"
    /\ Has(cacheStore, last.key)
    /\ cacheStore[last.key].timestamp = last.t
    /\ cacheStore[last.key].maxAge = 1
    /\ last.res = cacheStore[last.key].data
    /\ last.res = "B"

(***************************************************************************)
(* The cache key generator, generateCacheKey of useProducts and of         *)
(* test/utils/cache-helpers (the same code).  A string is the sequence of  *)
(* its characters; a parameter object is the sequence of its own           *)
(* [key, value] entries in insertion order, with distinct keys; a value is *)
(* a string, a number, a boolean, undefined or null.                       *)
(***************************************************************************)
\* the most entries a parameter object has
MaxParams == 2

StringValue(chars) == [type |-> "string", str |-> chars, num |-> 0, bool |-> FALSE]
NumberValue(n) == [type |-> "number", str |-> <<>>, num |-> n, bool |-> FALSE]
BooleanValue(b) == [type |-> "boolean", str |-> <<>>, num |-> 0, bool |-> b]
UndefinedValue == [type |-> "undefined", str |-> <<>>, num |-> 0, bool |-> FALSE]
NullValue == [type |-> "null", str |-> <<>>, num |-> 0, bool |-> FALSE]

\* the letters of parameter names, in the order localeCompare gives them
Alphabet == <<"a", "b", "c">>
Code(c) == CHOOSE i \in 1..Len(Alphabet) : Alphabet[i] = c

\* a.localeCompare(b) for names over the alphabet: negative, zero or positive
RECURSIVE localeCompare(_, _)
localeCompare(a, b) ==
    IF a = <<>> /\ b = <<>> THEN 0
    ELSE IF a = <<>> THEN -1
    ELSE IF b = <<>> THEN 1
    ELSE IF Code(Head(a)) < Code(Head(b)) THEN -1
    ELSE IF Code(Head(a)) > Code(Head(b)) THEN 1
    ELSE localeCompare(Tail(a), Tail(b))

\* the decimal digits of a number >= 0
Digits == <<"0", "1", "2", "3", "4", "5", "6", "7", "8", "9">>
RECURSIVE DigitsOf(_)
DigitsOf(n) ==
    IF n < 10 THEN <<Digits[n + 1]>>
    ELSE DigitsOf(n \div 10) \o <<Digits[(n % 10) + 1]>>

\* `${v}`: the string a template literal makes of a value
TemplateString(v) ==
    CASE v.type = "string" -> v.str
      [] v.type = "number" ->
            IF v.num < 0 THEN <<"-">> \o DigitsOf(0 - v.num) ELSE DigitsOf(v.num)
      [] v.type = "boolean" ->
            IF v.bool THEN <<"t", "r", "u", "e">> ELSE <<"f", "a", "l", "s", "e">>
      [] v.type = "null" -> <<"n", "u", "l", "l">>
      [] v.type = "undefined" -> <<"u", "n", "d", "e", "f", "i", "n", "e", "d">>

\* .filter(([_, v]) => v !== undefined)
FilterDefined(entries) == SelectSeq(entries, LAMBDA e : e.value.type # "undefined")

\* .sort(([a], [b]) => a.localeCompare(b)): a stable sort by the comparator
RECURSIVE InsertSorted(_, _)
InsertSorted(sorted, e) ==
    IF sorted = <<>> THEN <<e>>
    ELSE IF localeCompare(e.key, Head(sorted).key) < 0 THEN <<e>> \o sorted
    ELSE <<Head(sorted)>> \o InsertSorted(Tail(sorted), e)

RECURSIVE SortByKey(_)
SortByKey(entries) ==
    IF entries = <<>> THEN <<>>
    ELSE InsertSorted(SortByKey(SubSeq(entries, 1, Len(entries) - 1)),
                      entries[Len(entries)])

\* .map(([k, v]) => `${k}=${v}`)
KeyEqualsValue(e) == e.key \o <<"=">> \o TemplateString(e.value)

\* .join('&')
RECURSIVE JoinAmpersand(_)
JoinAmpersand(parts) ==
    IF parts = <<>> THEN <<>>
    ELSE IF Len(parts) = 1 THEN parts[1]
    ELSE parts[1] \o <<"&">> \o JoinAmpersand(Tail(parts))

\* the pipeline without the sort
SortedParams_Unsorted(entries) ==
    LET kept == FilterDefined(entries)
    IN JoinAmpersand([i \in 1..Len(kept) |-> KeyEqualsValue(kept[i])])

\* const sortedParams = Object.entries(options).filter().sort().map().join('&')
SortedParams(entries) ==
    LET kept == SortByKey(FilterDefined(entries))
    IN JoinAmpersand([i \in 1..Len(kept) |-> KeyEqualsValue(kept[i])])

\* generateCacheKey(base, options): params.given is FALSE when options is
\* undefined; an empty string sortedParams is falsy
generateCacheKey(base, params) ==
    IF ~params.given THEN base
    ELSE LET sortedParams == SortedParams(params.entries)
         IN IF sortedParams # <<>> THEN base \o <<"?">> \o sortedParams ELSE base

\* parameter names and values the generator is applied to
ParamKeys == {<<"a">>, <<"a", "b">>, <<"b">>}
ParamValues ==
    { StringValue(<<>>), StringValue(<<"x">>), StringValue(<<"1">>),
      NumberValue(1), NumberValue(10), BooleanValue(TRUE),
      UndefinedValue, NullValue }
\* values of the kinds arbitraryQueryParams draws: strings, integers, booleans
PlainValues ==
    { StringValue(<<"1">>), NumberValue(1), StringValue(<<"t", "r", "u", "e">>),
      BooleanValue(TRUE), StringValue(<<"x">>) }
BaseKeys == {<<"p">>}

\* the objects with at most n entries over the names K and the values V
ObjectsOver(K, V, n) ==
    UNION { { o \in [1..m -> [key : K, value : V]] :
                \A i, j \in 1..m : o[i].key = o[j].key => i = j } : m \in 0..n }

\* the same entries inserted in another order
Reordered(entries, f) == [i \in 1..Len(entries) |-> entries[f[i]]]

Given(entries) == [given |-> TRUE, entries |-> entries]
NotGiven == [given |-> FALSE, entries |-> <<>>]

\* one object and a reordering of it, two objects of plain values, or one
\* call without an object
KeyInputs ==
    UNION { { [params1 |-> Given(o), params2 |-> Given(Reordered(o, f))] :
                f \in Permutations(1..Len(o)) } :
            o \in ObjectsOver(ParamKeys, ParamValues, MaxParams) }
    \cup { [params1 |-> Given(o1), params2 |-> Given(o2)] :
             o1 \in ObjectsOver({<<"a">>, <<"b">>}, PlainValues, MaxParams),
             o2 \in ObjectsOver({<<"a">>, <<"b">>}, PlainValues, MaxParams) }
    \cup { [params1 |-> NotGiven, params2 |-> NotGiven] }

InitKeys ==
    /\ cacheStore = [k \in {} |-> 0]
    /\ now = 0
    /\ inflight = EmptyBag
    /\ \E base \in BaseKeys, input \in KeyInputs :
          last = [op |-> "input", base |-> base,
                  params1 |-> input.params1, params2 |-> input.params2,
                  key1 |-> <<>>, key2 |-> <<>>]

\* generateCacheKey applied to both objects
GenerateKeys ==
    /\ last.op = "input"
    /\ last' = [last EXCEPT !.op = "generateCacheKey",
                            !.key1 = generateCacheKey(last.base, last.params1),
                            !.key2 = generateCacheKey(last.base, last.params2)]
    /\ UNCHANGED <<cacheStore, now, inflight>>

SpecKeys == InitKeys /\ [][GenerateKeys]_vars

Generated == last.op = "generateCacheKey"

\* the [key, value] pairs of an object, as a set
Pairs(params) == {params.entries[i] : i \in 1..Len(params.entries)}

PlainObject(params) ==
    /\ params.given
    /\ \A e \in Pairs(params) : e.value \in PlainValues

C12_KeyDiscrimination ==
    (Generated /\ PlainObject(last.params1) /\ PlainObject(last.params2)
       /\ Pairs(last.params1) # Pairs(last.params2))
        => last.key1 # last.key2

(***************************************************************************)
(* C13  Absent-value filtering: a parameter whose value is undefined or    *)
(* null is dropped and never rendered into the key, while a parameter      *)
(* whose value is the empty string is kept, rendered as `key=`.            *)
(***************************************************************************)
IsAbsent(v) == v.type \in {"undefined", "null"}

WithoutAbsent(params) ==
    [given |-> params.given,
     entries |-> SelectSeq(params.entries, LAMBDA e : ~IsAbsent(e.value))]

\* part occurs in whole, as a run of characters
Occurs(part, whole) ==
    \E i \in 1..(Len(whole) - Len(part) + 1) :
        SubSeq(whole, i, i + Len(part) - 1) = part

C13_AbsentValuesDropped ==
    Generated
        => /\ last.key1 = generateCacheKey(last.base, WithoutAbsent(last.params1))
           /\ \A e \in Pairs(last.params1) :
                 e.value = StringValue(<<>>)
                    => \E sep \in {"?", "&"} :
                          Occurs(<<sep>> \o e.key \o <<"=", "&">>, last.key1 \o <<"&">>)

(***************************************************************************)
(* C14  Key format: generateCacheKey returns base unchanged when the       *)
(* object is absent, empty, or has no entry left after the absent values   *)
(* (undefined, null) are dropped; otherwise base, `?`, and the remaining   *)
(* entries as `key=value`, sorted by key and joined with `&`.              *)
(***************************************************************************)
\* the names of the remaining entries, in ascending order
RECURSIVE Ascending(_)
Ascending(names) ==
    IF names = {} THEN <<>>
    ELSE LET least == CHOOSE n \in names :
                         \A m \in names : localeCompare(n, m) <= 0
         IN <<least>> \o Ascending(names \ {least})

ValueOf(params, name) ==
    (CHOOSE e \in Pairs(params) : e.key = name).value

RECURSIVE Formatted(_, _)
Formatted(params, names) ==
    IF names = <<>> THEN <<>>
    ELSE Head(names) \o <<"=">> \o TemplateString(ValueOf(params, Head(names)))
           \o (IF Len(names) > 1 THEN <<"&">> ELSE <<>>)
           \o Formatted(params, Tail(names))

C14_KeyFormat ==
    Generated
        => LET remaining == WithoutAbsent(last.params1)
               names == Ascending({e.key : e \in Pairs(remaining)})
           IN last.key1 = IF names = <<>> THEN last.base
                          ELSE last.base \o <<"?">> \o Formatted(remaining, names)

(***************************************************************************)
(* C15  Set overwrites wholesale: after Set(key, D, opts) the entry of key *)
(* has data D, the clock reading of the call as timestamp, and maxAge and  *)
(* staleWhileRevalidate from opts or the defaults; no field is kept from   *)
(* the entry the key had before.                                           *)
(***************************************************************************)
C15_SetOverwrites ==
    last.op = "Set"
        => /\ Has(cacheStore, last.key)
           /\ cacheStore[last.key] =
                 [data |-> last.res,
                  timestamp |-> last.t,
                  maxAge |-> IF "maxAge" \in DOMAIN last.options
                             THEN last.options.maxAge ELSE DefaultMaxAge,
                  staleWhileRevalidate |->
                      IF "staleWhileRevalidate" \in DOMAIN last.options
                      THEN last.options.staleWhileRevalidate
                      ELSE DefaultStaleWhileRevalidate]

\* a Set with the default options onto an entry made earlier
C15_Witness ==
    /\ last.op = "Set"
    /\ last.prev = "replaced"
    /\ last.t > 0
    /\ last.options = NoOptions
    /\ cacheStore[last.key] = [data |-> "B", timestamp |-> last.t,
                               maxAge |-> DefaultMaxAge,
                               staleWhileRevalidate |-> DefaultStaleWhileRevalidate]

(***************************************************************************)
(* C16  No implicit eviction: a key in the store stays in the store        *)
(* through Get, Query, NeedsRevalidation, the clock, a failed fetch and a  *)
(* revalidation, also once its entry has expired; only Clear(key) and      *)
(* ClearAll() take it out.                                                 *)
(***************************************************************************)
C16_NoImplicitEviction ==
    [][\A k \in DOMAIN cacheStore :
          k \notin DOMAIN cacheStore'
             => \/ last'.op = "Clear" /\ last'.key = k
                \/ last'.op = "ClearAll"]_vars

\* an expired entry, looked up and still in the store
C16_Witness ==
    /\ last.op \in {"Get", "Query", "NeedsRevalidation", "fetchError",
                    "revalidateFailed"}
    /\ last.key \in DOMAIN cacheStore
    /\ last.t = now
    /\ cacheStore[last.key].maxAge + cacheStore[last.key].staleWhileRevalidate > 0
    /\ Expired(cacheStore[last.key], now)

(***************************************************************************)
(* C17  Get is a read-only peek: Get(key) calls no fetcher, starts no      *)
(* revalidation and leaves the store unchanged, whether the key is absent, *)
(* fresh, stale-but-usable or expired.                                     *)
(***************************************************************************)
C17_GetReadOnly ==
    [][last'.op = "Get" => cacheStore' = cacheStore /\ inflight' = inflight]_vars

\* a Get that returned stale data, with no fetcher called
C17_Witness ==
    /\ last.op = "Get"
    /\ last.t = now
    /\ Has(cacheStore, last.key)
    /\ StaleButUsable(cacheStore[last.key], now)
    /\ last.res = cacheStore[last.key].data
    /\ last.res # NullData
    /\ inflight = EmptyBag

(***************************************************************************)
(* C19  NeedsRevalidation(key) is true exactly when the store holds an     *)
(* entry for key that is usable and not fresh; it is false for a fresh     *)
(* entry, for an expired entry and for a key with no entry.  Stated for    *)
(* the calls during which the clock did not advance.                       *)
(***************************************************************************)
C19_NeedsRevalidationExact ==
    (last.op = "NeedsRevalidation" /\ now = last.t)
        => (last.res = "true"
              <=> /\ Has(cacheStore, last.key)
                  /\ StaleButUsable(cacheStore[last.key], last.t))

(***************************************************************************)
(* C20  Invalid options are rejected: Set or Query with a negative maxAge  *)
(* or a negative staleWhileRevalidate stores no entry, so every entry in   *)
(* the store has maxAge >= 0 and staleWhileRevalidate >= 0.                *)
(***************************************************************************)
\* options a caller can pass: CacheOptions types both fields as number
AnyOptions ==
    {[maxAge |-> 1, staleWhileRevalidate |-> 1],
     [maxAge |-> -1, staleWhileRevalidate |-> 1],
     [maxAge |-> 1, staleWhileRevalidate |-> -1]}

SpecAnyOptions == Init /\ [][NextOver(Keys, AnyOptions)]_vars

C20_InvalidOptionsRejected ==
    \A k \in DOMAIN cacheStore :
        /\ cacheStore[k].maxAge >= 0
        /\ cacheStore[k].staleWhileRevalidate >= 0

(***************************************************************************)
(* The store with two keys: the calls of Next, over the keys K, the        *)
(* options O and the payloads D.                                           *)
(***************************************************************************)
NextWith(K, O, D) ==
    \/ Tick
    \/ \E key \in K : Get(key)
    \/ \E key \in K, data \in D, options \in O : Set(key, data, options)
    \/ \E key \in K, a \in {0, 1} : NeedsRevalidation(key, a)
    \/ \E key \in K : Clear(key)
    \/ ClearAll
    \/ \E key \in K, options \in QueryOptions(K, O), a \in {0, 1}, b \in {0, 1} :
          Query(key, options, a, b)
    \/ \E task \in BagToSet(inflight), data \in D : FetchResolve(task, data)
    \/ \E task \in BagToSet(inflight) : FetchReject(task)
    \/ \E task \in BagToSet(inflight), data \in D : RevalidateResolve(task, data)
    \/ \E task \in BagToSet(inflight) : RevalidateReject(task)

TwoKeys == {"k1", "k2"}
OneWindow == {[maxAge |-> 1, staleWhileRevalidate |-> 1]}
OnePayload == {"A"}

SpecTwoKeys == Init /\ [][NextWith(TwoKeys, OneWindow, OnePayload)]_vars

(***************************************************************************)
(* C18  Explicit invalidation: Clear(key) removes the entry of exactly     *)
(* that key and leaves the entry of every other key unchanged, and changes *)
(* nothing when the key has no entry; ClearAll() leaves the store empty;   *)
(* the next Query on a cleared key takes the miss path and calls the       *)
(* fetcher.                                                                *)
(***************************************************************************)
\* the Query that follows a Clear of its key, or a ClearAll, with nothing but
\* the clock between
QueryAfterClear ==
    /\ last'.op = "Query"
    /\ \/ last.op = "Clear" /\ last.key = last'.key
       \/ last.op = "ClearAll"

C18_ExplicitInvalidation ==
    [][/\ last'.op = "Clear"
          => /\ DOMAIN cacheStore' = DOMAIN cacheStore \ {last'.key}
             /\ \A k \in DOMAIN cacheStore' : cacheStore'[k] = cacheStore[k]
       /\ last'.op = "ClearAll" => DOMAIN cacheStore' = {}
       /\ QueryAfterClear
          => /\ last'.res = Undefined
             /\ last'.fetch = "awaited"
             /\ \E task \in BagToSet(inflight') :
                   /\ task.kind = "fetch" /\ task.key = last'.key
                   /\ CopiesIn(task, inflight') = CopiesIn(task, inflight) + 1]_vars

\* Clear took one key out and the other key kept its entry
C18_Witness ==
    /\ last.op = "Clear"
    /\ last.prev = "removed"
    /\ last.key = "k1"
    /\ DOMAIN cacheStore = {"k2"}
    /\ cacheStore["k2"].data = "A"

(***************************************************************************)
(* C21  cacheKey override: when a Query is given a cacheKey option, every  *)
(* store read (lookup, revalidation check) and every store write (the      *)
(* store of the miss path, the store of the revalidation) of that Query    *)
(* uses cacheKey and none uses the key of the call site; without cacheKey  *)
(* all of them use the key of the call site.                               *)
(***************************************************************************)
\* the fetcher promises a step adds
Added == {task \in BagToSet(inflight') :
             CopiesIn(task, inflight') > CopiesIn(task, inflight)}

\* the step is a Query whose lookup, revalidation check and promises use k;
\* the completion of a promise writes to the key the promise carries
QueryUses(k) ==
    /\ last'.key = k
    /\ last'.res = IF getCachedData(cacheStore, k, now) # NullData
                   THEN getCachedData(cacheStore, k, now)
                   ELSE Undefined
    /\ last'.fetch = "background" => Has(cacheStore, k) /\ now' >= now
    /\ last'.fetch = "background" => ~isFresh(cacheStore[k], now')
    /\ \A task \in Added : task.key = k

\* the step is no Query call with these options; a call with the clock
\* readings a, b advances the clock by a to a + b
NoQueryWith(key, options) ==
    \A a \in {0, 1}, b \in {0, 1} :
        \/ now' - now < a
        \/ now' - now > a + b
        \/ ~Query(key, options, a, b)

\* as stated: a cacheKey that is given is the key, the empty string included
\* (a step that is a Query call uses the key of that call; last'.prev is the
\* call site of a Query step)
C21_CacheKeyOverride_AnyString ==
    [][(last'.op = "Query" /\ (last' # last \/ now' = now))
         => \A key \in TwoKeys, options \in QueryOptions(TwoKeys, OneWindow) :
               \/ last'.prev # key
               \/ QueryUses(IF "cacheKey" \in DOMAIN options
                            THEN options.cacheKey ELSE key)
               \/ NoQueryWith(key, options)]_vars

\* amended: a cacheKey that is given and is not the empty string is the key
\* of every read and write; without cacheKey, or with the empty string, the
\* key of the call site is
C21_CacheKeyOverride ==
    [][(last'.op = "Query" /\ (last' # last \/ now' = now))
         => \A key \in TwoKeys, options \in QueryOptions(TwoKeys, OneWindow) :
               \/ last'.prev # key
               \/ QueryUses(IF /\ "cacheKey" \in DOMAIN options
                               /\ options.cacheKey # EmptyKey
                            THEN options.cacheKey ELSE key)
               \/ NoQueryWith(key, options)]_vars

\* a Query at call site k1 served the entry of k2 and revalidates k2, while
\* k1 has no entry
C21_Witness ==
    /\ last.op = "Query"
    /\ last.prev = "k1"
    /\ last.key = "k2"
    /\ ~Has(cacheStore, "k1")
    /\ last.res = "A"
    /\ last.fetch = "background"
    /\ \E task \in BagToSet(inflight) : task.kind = "revalidate" /\ task.key = "k2"
    /\ \A task \in BagToSet(inflight) : task.key = "k2"

(***************************************************************************)
(* C22  Non-blocking stale hit: a Query that finds a stale-but-usable      *)
(* entry returns the cached data and awaits no fetch; the Query has        *)
(* returned while the background fetch it started is still pending.        *)
(***************************************************************************)
C22_NonBlockingStaleHit ==
    (QueryLookedUp /\ StaleButUsable(cacheStore[last.key], last.t))
        => /\ last.res = cacheStore[last.key].data
           /\ last.fetch \in {"background", None}
           /\ last.fetch = "background" => StartedBy("revalidate") # {}

(***************************************************************************)
(* C25  Served-stale implies revalidating: every Query that returns cached *)
(* data either found the entry fresh or started a background              *)
(* revalidation, also when the clock advances between the clock readings   *)
(* of the one call (the usability reading of getCachedData, then the       *)
(* isFresh reading and the isUsable reading of needsRevalidation).         *)
(***************************************************************************)
C25_ServedStaleImpliesRevalidating ==
    (QueryLookedUp /\ last.res # Undefined)
        => \/ Fresh(cacheStore[last.key], last.t)
           \/ last.fetch = "background" /\ StartedBy("revalidate") # {}

(***************************************************************************)
(* C30  A stored null payload is a hit like any other value: when the      *)
(* entry of a key is usable and its data is null, Query returns it from    *)
(* the cache and no fetcher is awaited, and the result of Get is not the   *)
(* result Get has for an absent key.                                       *)
(***************************************************************************)
\* what Get returns for a key the store does not hold
GetOfAbsentKey == getCachedData([k \in {} |-> 0], "k1", 0)

C30_NullPayloadIsAHit ==
    LET nullEntry == /\ Has(cacheStore, last.key)
                     /\ cacheStore[last.key].data = NullData
                     /\ ~Expired(cacheStore[last.key], last.t)
    IN /\ (last.op = "Query" /\ nullEntry)
            => last.res = NullData /\ last.fetch # "awaited"
       /\ (last.op = "Get" /\ nullEntry) => last.res # GetOfAbsentKey

(***************************************************************************)
(* C26  Clear is not undone by in-flight work: a background revalidation   *)
(* that was started before a Clear(key) or ClearAll() does not re-create   *)
(* the entry when it completes.  A revalidation is started only for a key  *)
(* that has an entry, and an entry leaves the store only by a clear (C16), *)
(* so a revalidation that completes while its key has no entry was started *)
(* before a clear: its completion leaves the key without an entry.         *)
(***************************************************************************)
RevalidateResolveStep ==
    last'.op = "revalidated" /\ inflight' # inflight

C26_ClearNotUndone ==
    [][(RevalidateResolveStep /\ ~Has(cacheStore, last'.key))
          => ~Has(cacheStore', last'.key)]_vars

(***************************************************************************)
(* C24  Last write wins: for one key, when a miss-path fetch, a Set and    *)
(* background revalidations complete in some order, the entry in the store *)
(* is the one written by whichever completed last, whichever was started   *)
(* first; no write is skipped or rejected by comparing against the         *)
(* timestamp of the entry.                                                 *)
(***************************************************************************)
\* the latest completion wrote the store
LastWrote == last.op \in {"Set", "transform", "revalidated"}

C24_LastWriteWins ==
    LastWrote
        => /\ Has(cacheStore, last.key)
           /\ cacheStore[last.key].data = last.res
           /\ cacheStore[last.key].timestamp = last.t
           /\ cacheStore[last.key].maxAge = MaxAgeOf(last.options)
           /\ cacheStore[last.key].staleWhileRevalidate
                 = StaleWhileRevalidateOf(last.options)

\* a revalidation completed, and wrote, after a miss-path fetch that was
\* started later than it and is still pending
C24_Witness ==
    /\ last.op = "revalidated"
    /\ last.started < last.t
    /\ cacheStore[last.key].data = last.res
    /\ cacheStore[last.key].timestamp = last.t
    /\ \E task \in BagToSet(inflight) :
          /\ task.kind = "fetch"
          /\ task.key = last.key
          /\ task.started > last.started

C27_TimestampMonotonic ==
    [][/\ now' >= now
       /\ \A k \in DOMAIN cacheStore' : cacheStore'[k].timestamp <= now'
       /\ \A k \in DOMAIN cacheStore \cap DOMAIN cacheStore' :
             cacheStore'[k].timestamp >= cacheStore[k].timestamp]_vars

\* a miss-path fetch started at 0 stored its entry at a later instant, over
\* an entry of the other key written in between
C27_Witness ==
    /\ last.op = "transform"
    /\ last.key = "k1"
    /\ last.started = 0
    /\ cacheStore["k1"].timestamp = now
    /\ Has(cacheStore, "k2")
    /\ 0 < cacheStore["k2"].timestamp
    /\ cacheStore["k2"].timestamp < cacheStore["k1"].timestamp

(***************************************************************************)
(* C29  Key isolation: Set, Query (hit or miss), the completion or the     *)
(* failure of a fetch or revalidation, and Clear on key k leave the entry  *)
(* (data, timestamp, maxAge, staleWhileRevalidate) of every other key      *)
(* unchanged, in every interleaving.                                       *)
(***************************************************************************)
C29_KeyIsolation ==
    [][last'.op # "ClearAll"
         => \A k \in TwoKeys \ {last'.key} :
               /\ Has(cacheStore', k) <=> Has(cacheStore, k)
               /\ Has(cacheStore, k) => cacheStore'[k] = cacheStore[k]]_vars

\* a revalidation of k1 stored its entry and the older entry of k2 is there
C29_Witness ==
    /\ last.op = "revalidated"
    /\ last.key = "k1"
    /\ cacheStore["k1"].timestamp = last.t
    /\ Has(cacheStore, "k2")
    /\ cacheStore["k2"].timestamp < last.started
    /\ \E task \in BagToSet(inflight) : task.key = "k2"

(***************************************************************************)
(* The store under fairness of the background task: the promise of a       *)
(* revalidation settles, by resolving or by rejecting.                     *)
(***************************************************************************)
RevalidationSettles ==
    \E task \in BagToSet(inflight) :
        \/ \E data \in OnePayload : RevalidateResolve(task, data)
        \/ RevalidateReject(task)

SpecSettling ==
    /\ Init
    /\ [][NextWith(Keys, OneWindow, OnePayload)]_vars
    /\ WF_vars(RevalidationSettles)

(***************************************************************************)
(* C23  Freshness is restored in the background: if a Query observes a     *)
(* stale-but-usable entry and starts a fetch, then, the promise settling   *)
(* eventually, either a revalidation fails or eventually the store entry   *)
(* of the key has a timestamp later than the old entry's and is Fresh at   *)
(* the moment it is stored (maxAge > 0).                                   *)
(***************************************************************************)
\* the latest Query observed the entry stamped ts and started a revalidation
ObservedStale(ts) ==
    /\ QueryLookedUp
    /\ last.fetch = "background"
    /\ last.options.maxAge > 0
    /\ cacheStore[last.key].timestamp = ts

\* a revalidation has just stored an entry later than ts, fresh as stored
Restored(ts) ==
    /\ last.op = "revalidated"
    /\ Has(cacheStore, last.key)
    /\ cacheStore[last.key].timestamp > ts
    /\ Fresh(cacheStore[last.key], last.t)

C23_FreshnessRestored ==
    \A ts \in 0..MaxTime :
        ObservedStale(ts) ~> (Restored(ts) \/ last.op = "revalidateFailed")

C23_Witness ==
    /\ Restored(0)
    /\ last.started < last.t
    /\ cacheStore[last.key].timestamp = last.t
    /\ inflight = EmptyBag
====
